---- MODULE Spec2Model ----
(***************************************************************************)
(* Contact point provisioning service (EmbeddedContactPointService).       *)
(* One organization; the Alertmanager configuration document and the       *)
(* provenance table are the shared state, every API call is a process      *)
(* that loads, computes and commits in separate steps.                     *)
(***************************************************************************)
EXTENDS Integers, Sequences, FiniteSets, TLC

\* ------------------------------------------------------------------ bounds
MaxOps == 2

Procs == {1, 2}

\* ------------------------------------------------------------- vocabulary
RedactedValue == "[REDACTED]"

\* a UID that no contact point carries
UnknownUIDs == {0}

Names == {"ops", "dev"}

EmptySettings == [k \in {} |-> ""]

\* the settings a caller may submit, by channel type
EmailSettings == [k \in {"addresses"} |-> "a@x.com"]

WebhookSettings(url, password) ==
  [k \in {"url", "password"} |-> IF k = "url" THEN url ELSE password]

\* Settings.Get(k).MustString(): the empty string when the key is absent
MustString(settings, k) == IF k \in DOMAIN settings THEN settings[k] ELSE ""

\* Settings.Del over a set of keys
DelKeys(settings, ks) == [x \in DOMAIN settings \ ks |-> settings[x]]

\* ------------------------------------------------------------ secret codec
\* secrets.Service.Encrypt followed by base64: a ciphertext carries its
\* plaintext and the random salt of the encryption that produced it
Encrypt(plaintext, salt) ==
  [b64 |-> TRUE, key |-> TRUE, pt |-> plaintext, salt |-> salt]

encryptValue(value, salt) == Encrypt(value, salt)

\* base64 decoding fails on a value that is not base64, Decrypt fails on a
\* ciphertext of another key
decrypteValue(value) ==
  IF ~value.b64 THEN [err |-> TRUE, val |-> ""]
  ELSE IF ~value.key THEN [err |-> TRUE, val |-> ""]
  ELSE [err |-> FALSE, val |-> value.pt]

\* EmbeddedContactPoint.SecretKeys: the secret settings keys of a type
SecretKeys(type) == IF type = "webhook" THEN {"password"} ELSE {}

\* EmbeddedContactPoint.ExtractSecrtes: the secret keys' values, which are
\* removed from Settings
ExtractSecrtes(cp) ==
  [secrets  |-> [k \in SecretKeys(cp.type) |-> MustString(cp.settings, k)],
   settings |-> DelKeys(cp.settings, SecretKeys(cp.type))]

\* EmbeddedContactPoint.IsValid: a known type with its required setting
IsValid(cp) ==
  \/ cp.type = "email" /\ MustString(cp.settings, "addresses") # ""
  \/ cp.type = "webhook" /\ MustString(cp.settings, "url") # ""

\* ------------------------------------------------------ document and store
Marshal(cfg) == [json |-> cfg]

DeserializeAlertmanagerConfig(data) == data.json

\* the store's content hash of a serialized document
ConfigurationHash(data) == [md5 |-> data]

SavedConfig(cfg) ==
  [AlertmanagerConfiguration |-> Marshal(cfg),
   ConfigurationHash         |-> ConfigurationHash(Marshal(cfg))]

\* a member of a receiver group as persisted
GrafanaReceiver(uid, name, type, settings, secure) ==
  [uid |-> uid, name |-> name, type |-> type, settings |-> settings,
   secure |-> secure]

Group(name, members) == [name |-> name, members |-> members]

\* positions <<g, i>> of all members of a document
Positions(cfg) ==
  UNION {{<<g, i>> : i \in 1..Len(cfg[g].members)} : g \in 1..Len(cfg)}

MemberAt(cfg, pos) == cfg[pos[1]].members[pos[2]]

UIDsOf(cfg) == {MemberAt(cfg, pos).uid : pos \in Positions(cfg)}

Before(a, b) == a[1] < b[1] \/ (a[1] = b[1] /\ a[2] <= b[2])

\* PostableUserConfig.GetGrafanaReceiverMap: one receiver per UID, a later
\* member in document order overwriting an earlier one with the same UID
GetGrafanaReceiverMap(cfg) ==
  [uid \in UIDsOf(cfg) |->
     LET at == {pos \in Positions(cfg) : MemberAt(cfg, pos).uid = uid}
     IN  MemberAt(cfg, CHOOSE pos \in at : \A q \in at : Before(q, pos))]

\* the external view of a contact point
ContactPoint(uid, name, type, settings, provenance) ==
  [uid |-> uid, name |-> name, type |-> type, settings |-> settings,
   provenance |-> provenance]

NoContactPoint == ContactPoint(0, "", "", EmptySettings, "")

\* the secure settings keys whose stored value decrypts to a non-empty value
Populated(secure) ==
  {k \in DOMAIN secure :
     ~decrypteValue(secure[k]).err /\ decrypteValue(secure[k]).val # ""}

\* index of the first member with the UID, 0 when there is none
FirstIndex(members, uid) ==
  IF \E i \in 1..Len(members) : members[i].uid = uid
  THEN CHOOSE i \in 1..Len(members) :
         /\ members[i].uid = uid
         /\ \A j \in 1..(i - 1) : members[j].uid # uid
  ELSE 0

RemoveAt(members, index) ==
  [j \in 1..(Len(members) - 1) |->
     IF j < index THEN members[j] ELSE members[j + 1]]

----
\* ------------------------------------------------------- the two stores
\* AlertingStore.UpdateAlertmanagerConfiguration: the guarded save
UpdateAlertmanagerConfiguration(saved, data, fetchedHash, fail) ==
  IF fail THEN [err |-> "StoreError", saved |-> saved]
  ELSE IF saved.ConfigurationHash # fetchedHash
  THEN [err |-> "ConcurrentModification", saved |-> saved]
  ELSE [err |-> "nil",
        saved |-> [AlertmanagerConfiguration |-> data,
                   ConfigurationHash |-> ConfigurationHash(data)]]

\* ProvisioningStore.SetProvenance: upsert
SetProvenance(records, uid, tag, fail) ==
  IF fail THEN [err |-> "ProvenanceStoreError", records |-> records]
  ELSE [err |-> "nil",
        records |-> [u \in DOMAIN records \cup {uid} |->
                       IF u = uid THEN tag ELSE records[u]]]

\* ProvisioningStore.DeleteProvenance: idempotent
DeleteProvenance(records, uid, fail) ==
  IF fail THEN [err |-> "ProvenanceStoreError", records |-> records]
  ELSE [err |-> "nil",
        records |-> [u \in DOMAIN records \ {uid} |-> records[u]]]

\* TransactionManager.InTransaction: the writes of the closure are kept when
\* it returns nil and rolled back when it returns an error
InTransaction(before, outcome) ==
  IF outcome.err = "nil" THEN outcome
  ELSE [err |-> outcome.err, saved |-> before.saved,
        records |-> before.records]

\* a listing that redacts every stored secure key, decryptable or not
GetContactPointsRedactAll(cfg, provenances) ==
  LET receivers == GetGrafanaReceiverMap(cfg)
      Redact(r) ==
        [k \in DOMAIN r.settings \cup DOMAIN r.secure |->
           IF k \in DOMAIN r.secure THEN RedactedValue ELSE r.settings[k]]
      Tag(uid) ==
        IF uid \in DOMAIN provenances THEN provenances[uid] ELSE ""
  IN  {ContactPoint(uid, receivers[uid].name, receivers[uid].type,
                    Redact(receivers[uid]), Tag(uid)) :
         uid \in DOMAIN receivers}

----
\* --------------------------------------------- the service's computations
\* a listing that sets the decrypted value where the sentinel belongs
GetContactPointsDecrypted(cfg, provenances) ==
  LET receivers == GetGrafanaReceiverMap(cfg)
      Shown(r) ==
        [k \in DOMAIN r.settings \cup Populated(r.secure) |->
           IF k \in Populated(r.secure) THEN decrypteValue(r.secure[k]).val
           ELSE r.settings[k]]
      Tag(uid) ==
        IF uid \in DOMAIN provenances THEN provenances[uid] ELSE ""
  IN  {ContactPoint(uid, receivers[uid].name, receivers[uid].type,
                    Shown(receivers[uid]), Tag(uid)) :
         uid \in DOMAIN receivers}

\* GetContactPoints, from a loaded document and the provenance records: the
\* listed contact points (the receiver map has no order)
GetContactPoints(cfg, provenances) ==
  LET receivers == GetGrafanaReceiverMap(cfg)
      Redact(r) ==
        [k \in DOMAIN r.settings \cup Populated(r.secure) |->
           IF k \in Populated(r.secure) THEN RedactedValue ELSE r.settings[k]]
      Tag(uid) ==
        IF uid \in DOMAIN provenances THEN provenances[uid] ELSE ""
  IN  {ContactPoint(uid, receivers[uid].name, receivers[uid].type,
                    Redact(receivers[uid]), Tag(uid)) :
         uid \in DOMAIN receivers}

\* an accessor that redacts the secrets as the listing does
getContactPointRedacted(cfg, uid) ==
  LET receivers == GetGrafanaReceiverMap(cfg)
      Redact(r) ==
        [k \in DOMAIN r.settings \cup Populated(r.secure) |->
           IF k \in Populated(r.secure) THEN RedactedValue ELSE r.settings[k]]
  IN  IF uid \in DOMAIN receivers
      THEN [err |-> "nil",
            cp  |-> ContactPoint(uid, receivers[uid].name,
                                 receivers[uid].type, Redact(receivers[uid]),
                                 "")]
      ELSE [err |-> "NotFound", cp |-> NoContactPoint]

\* getContactPointUncrypted, from a loaded document
getContactPointUncrypted(cfg, uid) ==
  LET receivers == GetGrafanaReceiverMap(cfg)
      Plain(r) ==
        [k \in DOMAIN r.settings \cup Populated(r.secure) |->
           IF k \in Populated(r.secure) THEN decrypteValue(r.secure[k]).val
           ELSE r.settings[k]]
  IN  IF uid \in DOMAIN receivers
      THEN [err |-> "nil",
            cp  |-> ContactPoint(uid, receivers[uid].name,
                                 receivers[uid].type, Plain(receivers[uid]),
                                 "")]
      ELSE [err |-> "NotFound", cp |-> NoContactPoint]

\* the internal model of a contact point: secrets extracted and encrypted
ToGrafanaReceiver(cp, salt) ==
  LET extracted == ExtractSecrtes(cp)
  IN  GrafanaReceiver(cp.uid, cp.name, cp.type, extracted.settings,
        [k \in DOMAIN extracted.secrets |->
           encryptValue(extracted.secrets[k], salt)])

\* a Create that puts the new receiver in place of the members of its group
AddReceiverOverwriting(cfg, grafanaReceiver) ==
  IF \E g \in 1..Len(cfg) : cfg[g].name = grafanaReceiver.name
  THEN [g \in 1..Len(cfg) |->
          IF cfg[g].name = grafanaReceiver.name
          THEN Group(cfg[g].name, <<grafanaReceiver>>)
          ELSE cfg[g]]
  ELSE Append(cfg, Group(grafanaReceiver.name, <<grafanaReceiver>>))

\* CreateContactPoint, the document with the new receiver: appended to every
\* group of its name, or in a new group when there is none
AddReceiver(cfg, grafanaReceiver) ==
  IF \E g \in 1..Len(cfg) : cfg[g].name = grafanaReceiver.name
  THEN [g \in 1..Len(cfg) |->
          IF cfg[g].name = grafanaReceiver.name
          THEN Group(cfg[g].name, Append(cfg[g].members, grafanaReceiver))
          ELSE cfg[g]]
  ELSE Append(cfg, Group(grafanaReceiver.name, <<grafanaReceiver>>))

\* UpdateContactPoint, the merge of the redacted values with the stored ones
MergeRedacted(cp, rawContactPoint) ==
  LET redacted == {k \in SecretKeys(cp.type) :
                     MustString(cp.settings, k) = RedactedValue}
  IN  [cp EXCEPT !.settings =
         [k \in DOMAIN cp.settings |->
            IF k \in redacted THEN MustString(rawContactPoint.settings, k)
            ELSE cp.settings[k]]]

\* a replacement that stops at the first group of the name
ReplaceReceiverFirstGroup(cfg, mergedReceiver) ==
  IF \E g \in 1..Len(cfg) :
       /\ cfg[g].name = mergedReceiver.name
       /\ FirstIndex(cfg[g].members, mergedReceiver.uid) = 0
  THEN [err |-> "NotFound", cfg |-> cfg]
  ELSE [err |-> "nil",
        cfg |-> [g \in 1..Len(cfg) |->
                   IF /\ cfg[g].name = mergedReceiver.name
                      /\ \A h \in 1..(g - 1) :
                           cfg[h].name # mergedReceiver.name
                   THEN Group(cfg[g].name,
                          [cfg[g].members EXCEPT
                             ![FirstIndex(cfg[g].members, mergedReceiver.uid)]
                               = mergedReceiver])
                   ELSE cfg[g]]]

\* a replacement that moves the member to the end of its group
ReplaceReceiverAtEnd(cfg, mergedReceiver) ==
  IF \E g \in 1..Len(cfg) :
       /\ cfg[g].name = mergedReceiver.name
       /\ FirstIndex(cfg[g].members, mergedReceiver.uid) = 0
  THEN [err |-> "NotFound", cfg |-> cfg]
  ELSE [err |-> "nil",
        cfg |-> [g \in 1..Len(cfg) |->
                   IF cfg[g].name = mergedReceiver.name
                   THEN Group(cfg[g].name,
                          Append(RemoveAt(cfg[g].members,
                                   FirstIndex(cfg[g].members,
                                              mergedReceiver.uid)),
                                 mergedReceiver))
                   ELSE cfg[g]]]

\* UpdateContactPoint, the document with the merged receiver in place of the
\* first member with its UID in every group of its name
ReplaceReceiver(cfg, mergedReceiver) ==
  IF \E g \in 1..Len(cfg) :
       /\ cfg[g].name = mergedReceiver.name
       /\ FirstIndex(cfg[g].members, mergedReceiver.uid) = 0
  THEN [err |-> "NotFound", cfg |-> cfg]
  ELSE [err |-> "nil",
        cfg |-> [g \in 1..Len(cfg) |->
                   IF cfg[g].name = mergedReceiver.name
                   THEN Group(cfg[g].name,
                          [cfg[g].members EXCEPT
                             ![FirstIndex(cfg[g].members, mergedReceiver.uid)]
                               = mergedReceiver])
                   ELSE cfg[g]]]

\* a removal that slices at the first position when the UID is not found
RemoveReceiverUnchecked(cfg, uid) ==
  [g \in 1..Len(cfg) |->
     IF Len(cfg[g].members) = 0 THEN cfg[g]
     ELSE Group(cfg[g].name,
                RemoveAt(cfg[g].members,
                         IF FirstIndex(cfg[g].members, uid) = 0 THEN 1
                         ELSE FirstIndex(cfg[g].members, uid)))]

\* a removal that stops at the first group holding the UID
RemoveReceiverFirstGroup(cfg, uid) ==
  [g \in 1..Len(cfg) |->
     IF \/ FirstIndex(cfg[g].members, uid) = 0
        \/ \E h \in 1..(g - 1) : FirstIndex(cfg[h].members, uid) # 0
     THEN cfg[g]
     ELSE Group(cfg[g].name,
                RemoveAt(cfg[g].members, FirstIndex(cfg[g].members, uid)))]

\* DeleteContactPoint, the document without the first member with the UID
\* of every group
RemoveReceiver(cfg, uid) ==
  [g \in 1..Len(cfg) |->
     IF FirstIndex(cfg[g].members, uid) = 0 THEN cfg[g]
     ELSE Group(cfg[g].name,
                RemoveAt(cfg[g].members, FirstIndex(cfg[g].members, uid)))]

\* a Create whose two writes are independent: nothing is rolled back
CreateTransactionNoRollback(db, data, fetchedHash, uid, provenance, failSave, failProv) ==
  LET save == UpdateAlertmanagerConfiguration(db.saved, data, fetchedHash,
                                              failSave)
      set  == SetProvenance(db.records, uid, provenance, failProv)
  IN  IF save.err # "nil"
      THEN [err |-> save.err, saved |-> save.saved, records |-> db.records]
      ELSE [err |-> set.err, saved |-> save.saved, records |-> set.records]

\* a Create that saves the document and writes no provenance
CreateTransactionSaveOnly(db, data, fetchedHash, uid, provenance, failSave, failProv) ==
  LET save == UpdateAlertmanagerConfiguration(db.saved, data, fetchedHash,
                                              failSave)
  IN  [err |-> save.err, saved |-> save.saved, records |-> db.records]

\* CreateContactPoint, the transaction: guarded save, then the provenance
CreateTransaction(db, data, fetchedHash, uid, provenance, failSave, failProv) ==
  LET save == UpdateAlertmanagerConfiguration(db.saved, data, fetchedHash,
                                              failSave)
      set  == SetProvenance(db.records, uid, provenance, failProv)
      body == IF save.err # "nil"
              THEN [err |-> save.err, saved |-> save.saved,
                    records |-> db.records]
              ELSE [err |-> set.err, saved |-> save.saved,
                    records |-> set.records]
  IN  InTransaction(db, body)

\* a Delete whose provenance delete is not rolled back with the save
DeleteTransactionNoRollback(db, data, fetchedHash, uid, failProv, failSave) ==
  LET del  == DeleteProvenance(db.records, uid, failProv)
      save == UpdateAlertmanagerConfiguration(db.saved, data, fetchedHash,
                                              failSave)
  IN  IF del.err # "nil"
      THEN [err |-> del.err, saved |-> db.saved, records |-> del.records]
      ELSE [err |-> save.err, saved |-> save.saved, records |-> del.records]

\* a Delete that saves under the hash current at commit, not the loaded one
DeleteTransactionUnguarded(db, data, fetchedHash, uid, failProv, failSave) ==
  LET del  == DeleteProvenance(db.records, uid, failProv)
      save == UpdateAlertmanagerConfiguration(db.saved, data,
                                              db.saved.ConfigurationHash,
                                              failSave)
      body == IF del.err # "nil"
              THEN [err |-> del.err, saved |-> db.saved,
                    records |-> del.records]
              ELSE [err |-> save.err, saved |-> save.saved,
                    records |-> del.records]
  IN  InTransaction(db, body)

\* DeleteContactPoint, the transaction: the provenance, then the guarded save
DeleteTransaction(db, data, fetchedHash, uid, failProv, failSave) ==
  LET del  == DeleteProvenance(db.records, uid, failProv)
      save == UpdateAlertmanagerConfiguration(db.saved, data, fetchedHash,
                                              failSave)
      body == IF del.err # "nil"
              THEN [err |-> del.err, saved |-> db.saved,
                    records |-> del.records]
              ELSE [err |-> save.err, saved |-> save.saved,
                    records |-> del.records]
  IN  InTransaction(db, body)

\* an Update that saves under the hash current at commit, not the loaded one
UpdateSaveResultUnguarded(db, data, fetchedHash, failSave) ==
  LET save == UpdateAlertmanagerConfiguration(db.saved, data,
                                              db.saved.ConfigurationHash,
                                              failSave)
  IN  [err |-> save.err, saved |-> save.saved, records |-> db.records]

\* UpdateContactPoint, the save: guarded by the hash of its own load
UpdateSaveResult(db, data, fetchedHash, failSave) ==
  LET save == UpdateAlertmanagerConfiguration(db.saved, data, fetchedHash,
                                              failSave)
  IN  [err |-> save.err, saved |-> save.saved, records |-> db.records]

----
\* ------------------------------------------------------------------ state
VARIABLES
  amConfig,       \* the latest saved configuration and its content hash
  provenances,    \* the provenance records of kind "contactpoint", by UID
  nextUID,        \* the UID that util.GenerateShortUID returns next
  ops,            \* number of API calls started so far
  pc,             \* where each caller is in its call
  loc,            \* the local variables of each caller's call
  createdSecret,  \* history: the secret submitted at creation, by UID,
                  \* until an Update or Delete of that UID commits
  commits         \* history: number of saves that have committed

vars ==
  <<amConfig, provenances, nextUID, ops, pc, loc, createdSecret, commits>>

NoReceiver ==
  GrafanaReceiver(0, "", "", EmptySettings, [k \in {} |-> Encrypt("", 0)])

NoLocals ==
  [op |-> "", seq |-> 0, cp |-> NoContactPoint, provenance |-> "",
   cfg |-> <<>>, hash |-> ConfigurationHash(Marshal(<<>>)),
   merged |-> NoReceiver, data |-> Marshal(<<>>), err |-> "",
   list |-> {}, loadedAt |-> 0, attemptAt |-> 0,
   readHash |-> ConfigurationHash(Marshal(<<>>))]

\* a load that returns the hash of an empty document with every document
getCurrentConfigFixedHash ==
  [cfg  |-> DeserializeAlertmanagerConfig(amConfig.AlertmanagerConfiguration),
   hash |-> ConfigurationHash(Marshal(<<>>))]

\* getCurrentConfig: the deserialized latest configuration and its hash
getCurrentConfig ==
  [cfg  |-> DeserializeAlertmanagerConfig(amConfig.AlertmanagerConfiguration),
   hash |-> amConfig.ConfigurationHash]

CurrentConfig == getCurrentConfig.cfg

db == [saved |-> amConfig, records |-> provenances]

Forget(uids) ==
  [u \in DOMAIN createdSecret \ uids |-> createdSecret[u]]

\* ----------------------------------------------------------------- inputs
\* the calls of the callers: <<contact point, provenance>> for a Create
CreateInputs ==
  {<<ContactPoint(0, "ops", "email", EmailSettings, ""), "api">>,
   <<ContactPoint(0, "dev", "email", EmailSettings, ""), "file">>,
   <<ContactPoint(0, "ops", "webhook", WebhookSettings("u1", "s1"), ""),
     "api">>,
   <<ContactPoint(0, "dev", "webhook", WebhookSettings("u1", "s1"), ""),
     "api">>,
   <<ContactPoint(0, "ops", "webhook",
                  WebhookSettings("u1", RedactedValue), ""), "api">>,
   <<ContactPoint(0, "ops", "email", EmptySettings, ""), "api">>}

UpdateInputs ==
  {ContactPoint(uid, "ops", "email", EmailSettings, "") :
     uid \in UIDsOf(CurrentConfig)}
  \cup {ContactPoint(uid, "ops", "webhook",
                     WebhookSettings("u2", RedactedValue), "") :
          uid \in UIDsOf(CurrentConfig)}
  \cup {ContactPoint(uid, n, "webhook", WebhookSettings("u1", "s2"), "") :
          uid \in UIDsOf(CurrentConfig), n \in Names}
  \cup {ContactPoint(uid, "ops", "email", EmailSettings, "") :
          uid \in UnknownUIDs}

\* ------------------------------------------------------ initial documents
\* a stored value that is not base64
Garbage == [b64 |-> FALSE, key |-> FALSE, pt |-> "", salt |-> 0]

\* a stored webhook whose password decrypts and whose token does not
StoredWebhook(uid, name) ==
  GrafanaReceiver(uid, name, "webhook", [k \in {"url"} |-> "u1"],
                  [k \in {"password", "token"} |->
                     IF k = "password" THEN Encrypt("s0", 0) ELSE Garbage])

StoredEmail(uid, name) ==
  GrafanaReceiver(uid, name, "email", EmailSettings,
                  [k \in {} |-> Encrypt("", 0)])

\* a document with one group of two contact points
PlainConfig ==
  <<Group("ops", <<StoredWebhook(1, "ops"), StoredEmail(2, "ops")>>)>>

\* a document in which two groups share a name
TwinConfig == <<Group("ops", <<StoredWebhook(1, "ops")>>), Group("ops", <<>>)>>

InitialConfigs == {PlainConfig, TwinConfig}

Init ==
  /\ \E cfg \in InitialConfigs :
       /\ amConfig = SavedConfig(cfg)
       /\ provenances = [u \in UIDsOf(cfg) |-> "file"]
  /\ nextUID = 3
  /\ ops = 0
  /\ pc = [p \in Procs |-> "idle"]
  /\ loc = [p \in Procs |-> NoLocals]
  /\ createdSecret = [u \in {} |-> ""]
  /\ commits = 0

\* ---------------------------------------------------------------- actions
Begin(p, op) ==
  /\ \/ /\ pc[p] = "idle"
        /\ \A q \in Procs : q < p => pc[q] # "idle"
        /\ ops < MaxOps
     \/ /\ pc[p] = "retry"
        /\ loc[p].op = op
  /\ ops' = ops + 1

Finish(p, locals, err) ==
  /\ pc' = [pc EXCEPT ![p] = "done"]
  /\ loc' = [loc EXCEPT ![p] = [locals EXCEPT !.err = err]]

\* GetContactPoints, up to the load of the document
GetContactPointsLoad(p) ==
  /\ Begin(p, "list")
  /\ pc' = [pc EXCEPT ![p] = "list_loaded"]
  /\ loc' = [loc EXCEPT ![p] =
               [NoLocals EXCEPT !.op = "list", !.seq = ops + 1,
                                !.cfg = getCurrentConfig.cfg,
                                !.hash = getCurrentConfig.hash,
                                !.loadedAt = commits]]
  /\ UNCHANGED <<amConfig, provenances, nextUID, createdSecret, commits>>

\* GetContactPoints, from the read of the provenances on
GetContactPointsList(p) ==
  /\ pc[p] = "list_loaded"
  /\ Finish(p, [loc[p] EXCEPT
                  !.list = GetContactPoints(loc[p].cfg, provenances)], "nil")
  /\ UNCHANGED <<amConfig, provenances, nextUID, ops, createdSecret, commits>>

\* a Create that loads the document without validating the contact point
CreateContactPointUnvalidated(p, contactPoint, provenance) ==
  /\ Begin(p, "create")
  /\ pc' = [pc EXCEPT ![p] = "create_loaded"]
  /\ loc' = [loc EXCEPT ![p] =
               [NoLocals EXCEPT !.op = "create", !.seq = ops + 1,
                                !.cp = contactPoint,
                                !.provenance = provenance,
                                !.cfg = getCurrentConfig.cfg,
                                !.hash = getCurrentConfig.hash,
                                !.loadedAt = commits]]
  /\ UNCHANGED <<amConfig, provenances, nextUID, createdSecret, commits>>

\* CreateContactPoint, up to the load of the document
CreateContactPoint(p, contactPoint, provenance) ==
  /\ Begin(p, "create")
  /\ LET locals == [NoLocals EXCEPT !.op = "create", !.seq = ops + 1,
                                    !.cp = contactPoint,
                                    !.provenance = provenance]
     IN  IF ~IsValid(contactPoint)
         THEN Finish(p, locals, "ValidationError")
         ELSE /\ pc' = [pc EXCEPT ![p] = "create_loaded"]
              /\ loc' = [loc EXCEPT ![p] =
                           [locals EXCEPT !.cfg = getCurrentConfig.cfg,
                                          !.hash = getCurrentConfig.hash,
                                          !.loadedAt = commits]]
  /\ UNCHANGED <<amConfig, provenances, nextUID, createdSecret, commits>>

\* CreateContactPoint, from the extraction of the secrets to the return
CreateContactPointCommit(p, failSave, failProv) ==
  /\ pc[p] = "create_loaded"
  /\ LET cp       == [loc[p].cp EXCEPT !.uid = nextUID]
         receiver == ToGrafanaReceiver(cp, loc[p].seq)
         data     == Marshal(AddReceiver(loc[p].cfg, receiver))
         out      == CreateTransaction(db, data, loc[p].hash, cp.uid,
                                       loc[p].provenance, failSave, failProv)
         returned == [cp EXCEPT !.settings = receiver.settings,
                                !.provenance = loc[p].provenance]
     IN  /\ amConfig' = out.saved
         /\ provenances' = out.records
         /\ Finish(p, [loc[p] EXCEPT !.cp = IF out.err = "nil" THEN returned
                                             ELSE cp,
                                     !.merged = receiver, !.data = data,
                                     !.attemptAt = commits],
                   out.err)
         /\ commits' = IF out.err = "nil" THEN commits + 1 ELSE commits
         /\ nextUID' = IF out.err = "nil" THEN nextUID + 1 ELSE nextUID
         /\ createdSecret' =
              IF out.err = "nil"
              THEN [u \in DOMAIN createdSecret \cup {cp.uid} |->
                      IF u = cp.uid
                      THEN MustString(loc[p].cp.settings, "password")
                      ELSE createdSecret[u]]
              ELSE createdSecret
  /\ UNCHANGED ops

\* UpdateContactPoint, up to the internal model of the merged contact point
UpdateContactPoint(p, contactPoint) ==
  /\ Begin(p, "update")
  /\ LET locals == [NoLocals EXCEPT !.op = "update", !.seq = ops + 1,
                                    !.cp = contactPoint,
                                    !.readHash = getCurrentConfig.hash]
         raw    == getContactPointUncrypted(getCurrentConfig.cfg,
                                            contactPoint.uid)
         merged == MergeRedacted(contactPoint, raw.cp)
     IN  IF raw.err # "nil" THEN Finish(p, locals, raw.err)
         ELSE IF ~IsValid(merged) THEN Finish(p, locals, "ValidationError")
         ELSE /\ pc' = [pc EXCEPT ![p] = "update_merged"]
              /\ loc' = [loc EXCEPT ![p] =
                           [locals EXCEPT
                              !.merged = ToGrafanaReceiver(merged, ops + 1)]]
  /\ UNCHANGED <<amConfig, provenances, nextUID, createdSecret, commits>>

\* UpdateContactPoint, the load of the document and the replacement
UpdateContactPointLoad(p) ==
  /\ pc[p] = "update_merged"
  /\ LET locals   == [loc[p] EXCEPT !.cfg = getCurrentConfig.cfg,
                                    !.hash = getCurrentConfig.hash,
                                    !.loadedAt = commits]
         replaced == ReplaceReceiver(getCurrentConfig.cfg, loc[p].merged)
     IN  IF replaced.err # "nil" THEN Finish(p, locals, replaced.err)
         ELSE /\ pc' = [pc EXCEPT ![p] = "update_loaded"]
              /\ loc' = [loc EXCEPT ![p] =
                           [locals EXCEPT !.data = Marshal(replaced.cfg)]]
  /\ UNCHANGED <<amConfig, provenances, nextUID, ops, createdSecret, commits>>

\* UpdateContactPoint, the guarded save
UpdateContactPointSave(p, failSave) ==
  /\ pc[p] = "update_loaded"
  /\ LET out == UpdateSaveResult(db, loc[p].data, loc[p].hash, failSave)
     IN  /\ amConfig' = out.saved
         /\ provenances' = out.records
         /\ Finish(p, [loc[p] EXCEPT !.attemptAt = commits], out.err)
         /\ createdSecret' = IF out.err = "nil"
                             THEN Forget({loc[p].cp.uid}) ELSE createdSecret
         /\ commits' = IF out.err = "nil" THEN commits + 1 ELSE commits
  /\ UNCHANGED <<nextUID, ops>>

\* DeleteContactPoint, up to the serialized document
DeleteContactPoint(p, uid) ==
  /\ Begin(p, "delete")
  /\ pc' = [pc EXCEPT ![p] = "delete_loaded"]
  /\ loc' = [loc EXCEPT ![p] =
               [NoLocals EXCEPT
                  !.op = "delete", !.seq = ops + 1,
                  !.cp = [NoContactPoint EXCEPT !.uid = uid],
                  !.cfg = getCurrentConfig.cfg,
                  !.hash = getCurrentConfig.hash,
                  !.loadedAt = commits,
                  !.data = Marshal(RemoveReceiver(getCurrentConfig.cfg, uid))]]
  /\ UNCHANGED <<amConfig, provenances, nextUID, createdSecret, commits>>

\* DeleteContactPoint, the transaction
DeleteContactPointCommit(p, failProv, failSave) ==
  /\ pc[p] = "delete_loaded"
  /\ LET out == DeleteTransaction(db, loc[p].data, loc[p].hash,
                                  loc[p].cp.uid, failProv, failSave)
     IN  /\ amConfig' = out.saved
         /\ provenances' = out.records
         /\ Finish(p, [loc[p] EXCEPT !.attemptAt = commits], out.err)
         /\ createdSecret' = IF out.err = "nil"
                             THEN Forget({loc[p].cp.uid}) ELSE createdSecret
         /\ commits' = IF out.err = "nil" THEN commits + 1 ELSE commits
  /\ UNCHANGED <<nextUID, ops>>

\* the call returns to its caller
Return(p) ==
  /\ pc[p] = "done"
  /\ pc' = [pc EXCEPT ![p] = "idle"]
  /\ loc' = [loc EXCEPT ![p] = NoLocals]
  /\ UNCHANGED <<amConfig, provenances, nextUID, ops, createdSecret, commits>>

Next ==
  \/ \E p \in Procs : GetContactPointsLoad(p)
  \/ \E p \in Procs : GetContactPointsList(p)
  \/ \E p \in Procs, call \in CreateInputs :
       CreateContactPoint(p, call[1], call[2])
  \/ \E p \in Procs, failSave \in BOOLEAN, failProv \in BOOLEAN :
       CreateContactPointCommit(p, failSave, failProv)
  \/ \E p \in Procs, cp \in UpdateInputs : UpdateContactPoint(p, cp)
  \/ \E p \in Procs : UpdateContactPointLoad(p)
  \/ \E p \in Procs, failSave \in BOOLEAN : UpdateContactPointSave(p, failSave)
  \/ \E p \in Procs, uid \in UIDsOf(CurrentConfig) \cup UnknownUIDs :
       DeleteContactPoint(p, uid)
  \/ \E p \in Procs, failProv \in BOOLEAN, failSave \in BOOLEAN :
       DeleteContactPointCommit(p, failProv, failSave)
  \/ \E p \in Procs : Return(p)

Spec == Init /\ [][Next]_vars

\* ------------------------------------------- callers that retry on conflict
\* a caller whose call failed with ConcurrentModification runs it again
Retry(p) ==
  /\ pc[p] = "done"
  /\ loc[p].err = "ConcurrentModification"
  /\ pc' = [pc EXCEPT ![p] = "retry"]
  /\ UNCHANGED <<amConfig, provenances, nextUID, ops, loc, createdSecret,
                 commits>>

\* the calls a caller issues: a valid one on a stored contact point the
\* first time, the same one again on a retry
LiveCreateInputs(p) ==
  IF pc[p] = "retry"
  THEN {<<[loc[p].cp EXCEPT !.uid = 0], loc[p].provenance>>}
  ELSE {call \in CreateInputs : IsValid(call[1])}

LiveUpdateInputs(p) ==
  IF pc[p] = "retry" THEN {loc[p].cp}
  ELSE {cp \in UpdateInputs : cp.uid \notin UnknownUIDs}

LiveDeleteInputs(p) ==
  IF pc[p] = "retry" THEN {loc[p].cp.uid} ELSE UIDsOf(CurrentConfig)

\* the steps of one caller: one mutating call, no store failure, run again
\* after every ConcurrentModification
LiveStep(p) ==
  \/ \E call \in LiveCreateInputs(p) : CreateContactPoint(p, call[1], call[2])
  \/ CreateContactPointCommit(p, FALSE, FALSE)
  \/ \E cp \in LiveUpdateInputs(p) : UpdateContactPoint(p, cp)
  \/ UpdateContactPointLoad(p)
  \/ UpdateContactPointSave(p, FALSE)
  \/ \E uid \in LiveDeleteInputs(p) : DeleteContactPoint(p, uid)
  \/ DeleteContactPointCommit(p, FALSE, FALSE)
  \/ Retry(p)

LiveNext ==
  \/ \E p \in Procs : \E call \in LiveCreateInputs(p) :
       CreateContactPoint(p, call[1], call[2])
  \/ \E p \in Procs : CreateContactPointCommit(p, FALSE, FALSE)
  \/ \E p \in Procs : \E cp \in LiveUpdateInputs(p) :
       UpdateContactPoint(p, cp)
  \/ \E p \in Procs : UpdateContactPointLoad(p)
  \/ \E p \in Procs : UpdateContactPointSave(p, FALSE)
  \/ \E p \in Procs : \E uid \in LiveDeleteInputs(p) :
       DeleteContactPoint(p, uid)
  \/ \E p \in Procs : DeleteContactPointCommit(p, FALSE, FALSE)
  \/ \E p \in Procs : Retry(p)

\* every caller is a request of its own that keeps running
Fairness == \A p \in Procs : WF_vars(LiveStep(p))

LiveSpec == Init /\ [][LiveNext]_vars /\ Fairness

----
\* ------------------------------------------------------------ properties
Saved == amConfig.AlertmanagerConfiguration

\* the call of p got to its guarded save and no store failed it
Attempted(p) ==
  /\ pc[p] = "done"
  /\ loc[p].op \in {"create", "update", "delete"}
  /\ loc[p].err \in {"nil", "ConcurrentModification"}

\* the document p wrote has the content of the document p loaded
Rewrote(p) == loc[p].data = Marshal(loc[p].cfg)

\* p and q loaded the document under the same hash, each before the
\* other's commit
SameLoad(p, q) ==
  /\ p # q
  /\ Attempted(p) /\ Attempted(q)
  /\ loc[p].hash = loc[q].hash
  /\ loc[p].loadedAt <= loc[q].attemptAt
  /\ loc[q].loadedAt <= loc[p].attemptAt

\* the plaintext stored for a secret key of a contact point
StoredPlain(cfg, uid, k) ==
  MustString(getContactPointUncrypted(cfg, uid).cp.settings, k)

\* the commit step of a mutating call, with the failures injected into it
CommitStep(p, failSave, failProv) ==
  \/ CreateContactPointCommit(p, failSave, failProv)
  \/ UpdateContactPointSave(p, failSave)
  \/ DeleteContactPointCommit(p, failProv, failSave)

\* C1 (as stated): of two UpdateContactPoint calls that loaded the document
\* under the same hash and both got to their save, exactly one succeeds, the
\* other fails with ConcurrentModification, and the stored document is the
\* one the successful call wrote.
C1_SecondUpdateAlwaysFails ==
  \A p, q \in Procs :
    (SameLoad(p, q) /\ loc[p].op = "update" /\ loc[q].op = "update"
       /\ loc[p].err = "nil")
    => /\ loc[q].err = "ConcurrentModification"
       /\ Saved = loc[p].data

\* C1 (amended): of two such UpdateContactPoint calls at least one succeeds
\* and the stored document is the one a successful call wrote; the other
\* fails with ConcurrentModification unless one of the two rewrote the
\* document with the content it had loaded, which leaves the content hash
\* in place: then both succeed and the stored document is the other's.
C1_UpdatesNeverMix ==
  \A p, q \in Procs :
    (SameLoad(p, q) /\ loc[p].op = "update" /\ loc[q].op = "update")
    => /\ loc[p].err = "nil" \/ loc[q].err = "nil"
       /\ (loc[p].err = "nil" /\ loc[q].err = "ConcurrentModification")
            => Saved = loc[p].data
       /\ (loc[p].err = "nil" /\ loc[q].err = "nil")
            => \/ Rewrote(p) /\ Saved = loc[q].data
               \/ Rewrote(q) /\ Saved = loc[p].data

C1_Witness ==
  \E p, q \in Procs :
    /\ SameLoad(p, q) /\ loc[p].op = "update" /\ loc[q].op = "update"
    /\ loc[p].err = "nil" /\ loc[q].err = "ConcurrentModification"
    /\ ~Rewrote(p) /\ ~Rewrote(q)
    /\ loc[p].cp.uid = loc[q].cp.uid
    /\ Saved = loc[p].data

\* C2: a CreateContactPoint whose provenance write fails leaves the stored
\* document as it was, one whose guarded save fails leaves no provenance
\* record for the new UID, and both return an error.
C2_CreateAllOrNothing ==
  [][\A p \in Procs, failSave, failProv \in BOOLEAN :
       CreateContactPointCommit(p, failSave, failProv)
       => /\ (~failSave /\ failProv
                /\ amConfig.ConfigurationHash = loc[p].hash)
               => /\ amConfig' = amConfig
                  /\ loc'[p].err # "nil"
          /\ (failSave \/ amConfig.ConfigurationHash # loc[p].hash)
               => /\ nextUID \notin DOMAIN provenances'
                  /\ provenances' = provenances
                  /\ loc'[p].err # "nil"]_vars

C2_Witness ==
  \E p \in Procs :
    /\ pc[p] = "done" /\ loc[p].op = "create"
    /\ loc[p].err = "ProvenanceStoreError"
    /\ amConfig.ConfigurationHash = loc[p].hash
    /\ loc[p].cp.uid \notin UIDsOf(CurrentConfig)
    /\ loc[p].cp.uid \notin DOMAIN provenances

\* C3: in every reachable state a UID is a member of the configuration
\* document if and only if it has a provenance record.
C3_MemberIffProvenance == UIDsOf(CurrentConfig) = DOMAIN provenances

C3_Witness ==
  /\ \E uid \in UIDsOf(CurrentConfig) : uid >= 3 /\ uid \in DOMAIN provenances
  /\ \E p \in Procs :
       /\ pc[p] = "done" /\ loc[p].op = "delete" /\ loc[p].err = "nil"
       /\ loc[p].cp.uid \in UIDsOf(loc[p].cfg)
       /\ loc[p].cp.uid \notin DOMAIN provenances

C5_SentinelKeepsStoredSecret ==
  [][\A p \in Procs, failSave \in BOOLEAN :
       (/\ UpdateContactPointSave(p, failSave)
        /\ loc'[p].err = "nil")
       => \A k \in SecretKeys(loc[p].cp.type) :
            (/\ MustString(loc[p].cp.settings, k) = RedactedValue
             /\ StoredPlain(CurrentConfig, loc[p].cp.uid, k) # "")
            => StoredPlain(CurrentConfig', loc[p].cp.uid, k)
                 = StoredPlain(CurrentConfig, loc[p].cp.uid, k)]_vars

\* C6 (as stated): a DeleteContactPoint of a UID that is in no group of the
\* document it loaded, and that no store failure hits, returns no error.
C6_DeleteOfAbsentNeverFails ==
  \A p \in Procs :
    (/\ pc[p] = "done" /\ loc[p].op = "delete"
     /\ loc[p].cp.uid \notin UIDsOf(loc[p].cfg)
     /\ loc[p].err \notin {"StoreError", "ProvenanceStoreError"})
    => loc[p].err = "nil"

\* C6 (amended): a DeleteContactPoint of a UID that is in no group of the
\* document it loaded never changes the stored document; it returns no error
\* when no store fails and the stored hash is still the loaded one at its
\* commit, and fails with ConcurrentModification when the hash has changed.
C6_DeleteOfAbsentKeepsDocument ==
  [][\A p \in Procs, failProv, failSave \in BOOLEAN :
       (/\ DeleteContactPointCommit(p, failProv, failSave)
        /\ loc[p].cp.uid \notin UIDsOf(loc[p].cfg))
       => /\ amConfig' = amConfig
          /\ (~failProv /\ ~failSave)
               => loc'[p].err =
                    IF amConfig.ConfigurationHash = loc[p].hash
                    THEN "nil" ELSE "ConcurrentModification"]_vars

C6_Witness ==
  \E p \in Procs :
    /\ pc[p] = "done" /\ loc[p].op = "delete" /\ loc[p].err = "nil"
    /\ loc[p].cp.uid \notin UIDsOf(loc[p].cfg)
    /\ Saved = Marshal(loc[p].cfg)

\* C7 (as stated): an UpdateContactPoint gets to its save only when its
\* loaded document has a group named after the contact point and every such
\* group has a member with the UID; otherwise it has failed with NotFound.
C7_UpdateWithoutGroupFails ==
  \A p \in Procs :
    (/\ loc[p].op = "update"
     /\ \/ pc[p] = "update_loaded"
        \/ pc[p] = "done" /\ loc[p].err \in {"nil", "ConcurrentModification",
                                             "StoreError"})
    => /\ \E g \in 1..Len(loc[p].cfg) : loc[p].cfg[g].name = loc[p].cp.name
       /\ \A g \in 1..Len(loc[p].cfg) :
            loc[p].cfg[g].name = loc[p].cp.name
            => FirstIndex(loc[p].cfg[g].members, loc[p].cp.uid) # 0

\* C8 (as stated): no two members of the stored document, in the same or in
\* different groups, carry the same UID.
C8_UIDsUnique ==
  \A a, b \in Positions(CurrentConfig) :
    a # b => MemberAt(CurrentConfig, a).uid # MemberAt(CurrentConfig, b).uid

\* C9: a DeleteContactPoint deletes the provenance record of the UID if and
\* only if its guarded save commits: when it returns nil the stored document
\* is the one it wrote and the record is gone, and when the provenance
\* delete or the save fails (store error or hash mismatch) it returns an
\* error and both the document and the provenance records are as before.
C9_DeleteAllOrNothing ==
  [][\A p \in Procs, failProv, failSave \in BOOLEAN :
       DeleteContactPointCommit(p, failProv, failSave)
       => /\ (failProv \/ failSave
                \/ amConfig.ConfigurationHash # loc[p].hash)
               <=> loc'[p].err # "nil"
          /\ loc'[p].err = "nil"
               => /\ Saved' = loc[p].data
                  /\ loc[p].cp.uid \notin DOMAIN provenances'
          /\ loc'[p].err # "nil"
               => /\ amConfig' = amConfig
                  /\ provenances' = provenances]_vars

C9_Witness ==
  \E p \in Procs :
    /\ pc[p] = "done" /\ loc[p].op = "delete"
    /\ loc[p].err \in {"ConcurrentModification", "StoreError"}
    /\ loc[p].cp.uid \in UIDsOf(loc[p].cfg)
    /\ loc[p].cp.uid \in UIDsOf(CurrentConfig)
    /\ loc[p].cp.uid \in DOMAIN provenances

\* C10 (as stated): of two mutating calls of any kinds that loaded the
\* document under the same hash and both got to their commit, at most one
\* commits and the other fails with ConcurrentModification.
C10_AtMostOneCommits ==
  \A p, q \in Procs :
    (SameLoad(p, q) /\ loc[p].err = "nil")
    => loc[q].err = "ConcurrentModification"

\* C10 (amended): when a mutating call has committed a document whose
\* content differs from the one it loaded, the commit of any other mutating
\* call that loaded under the same hash fails, with ConcurrentModification
\* when no store failure hits it, and changes neither the stored document
\* nor the provenance records.  (A call that commits the content it loaded
\* leaves the hash in place and does not make the other fail.)
C10_ChangedDocumentRejectsOthers ==
  [][\A q \in Procs, failSave, failProv \in BOOLEAN :
       (/\ CommitStep(q, failSave, failProv)
        /\ \E p \in Procs \ {q} :
             /\ Attempted(p) /\ loc[p].err = "nil"
             /\ loc[p].hash = loc[q].hash
             /\ loc[q].loadedAt <= loc[p].attemptAt
             /\ ~Rewrote(p))
       => /\ loc'[q].err # "nil"
          /\ (~failSave /\ ~failProv)
               => loc'[q].err = "ConcurrentModification"
          /\ amConfig' = amConfig
          /\ provenances' = provenances]_vars

C10_Witness ==
  \E p, q \in Procs :
    /\ SameLoad(p, q)
    /\ loc[p].op = "create" /\ loc[p].err = "nil"
    /\ loc[q].op = "delete" /\ loc[q].err = "ConcurrentModification"
    /\ loc[q].cp.uid \in UIDsOf(CurrentConfig)
    /\ loc[q].cp.uid \in DOMAIN provenances
    /\ Saved = loc[p].data

\* C11: a CreateContactPoint that commits returns a contact point with a
\* UID no member carried and the caller's provenance; a listing of the state
\* it leaves has exactly one entry with that UID, with the given name and
\* provenance, and every entry listed before; the new member is appended to
\* the groups of its name, or a new group of its name is appended when
\* there is none, and nothing else of the document changes.
C11_CreateAppendsAndLists ==
  [][\A p \in Procs, failSave, failProv \in BOOLEAN :
       (/\ CreateContactPointCommit(p, failSave, failProv)
        /\ loc'[p].err = "nil")
       => LET old    == CurrentConfig
              new    == CurrentConfig'
              uid    == loc'[p].cp.uid
              name   == loc[p].cp.name
              before == GetContactPoints(old, provenances)
              after  == GetContactPoints(new, provenances')
              named  == {g \in 1..Len(old) : old[g].name = name}
          IN  /\ uid \notin UIDsOf(old)
              /\ loc'[p].cp.provenance = loc[p].provenance
              /\ Cardinality({e \in after : e.uid = uid}) = 1
              /\ \A e \in after :
                   e.uid = uid => /\ e.name = name
                                  /\ e.type = loc[p].cp.type
                                  /\ e.provenance = loc[p].provenance
              /\ before \subseteq after
              /\ Cardinality(after) = Cardinality(before) + 1
              /\ IF named # {}
                 THEN /\ Len(new) = Len(old)
                      /\ \A g \in 1..Len(old) :
                           /\ new[g].name = old[g].name
                           /\ IF g \in named
                              THEN /\ Len(new[g].members)
                                        = Len(old[g].members) + 1
                                   /\ SubSeq(new[g].members, 1,
                                             Len(old[g].members))
                                        = old[g].members
                                   /\ new[g].members[Len(new[g].members)].uid
                                        = uid
                              ELSE new[g] = old[g]
                 ELSE /\ Len(new) = Len(old) + 1
                      /\ SubSeq(new, 1, Len(old)) = old
                      /\ new[Len(new)].name = name
                      /\ Len(new[Len(new)].members) = 1
                      /\ new[Len(new)].members[1].uid = uid]_vars

C11_Witness ==
  \E p, q \in Procs :
    /\ pc[p] = "done" /\ loc[p].op = "create" /\ loc[p].err = "nil"
    /\ loc[p].cp.provenance = "file"
    /\ pc[q] = "done" /\ loc[q].op = "list"
    /\ \E e \in loc[q].list :
         /\ e.uid = loc[p].cp.uid /\ e.name = "dev" /\ e.provenance = "file"
    /\ Cardinality(loc[q].list) = Cardinality(UIDsOf(loc[p].cfg)) + 1

\* C12: while no Update or Delete of a created UID has committed,
\* getContactPointUncrypted of that UID succeeds and returns the secret key
\* with the plaintext submitted at creation.
C12_CreatedSecretReadsBack ==
  \A uid \in DOMAIN createdSecret :
    createdSecret[uid] # ""
    => LET raw == getContactPointUncrypted(CurrentConfig, uid)
       IN  /\ raw.err = "nil"
           /\ "password" \in DOMAIN raw.cp.settings
           /\ raw.cp.settings["password"] = createdSecret[uid]

C12_Witness ==
  \E uid \in DOMAIN createdSecret, q \in Procs :
    /\ createdSecret[uid] = "s1"
    /\ pc[q] = "done" /\ loc[q].op = "update" /\ loc[q].err = "nil"
    /\ loc[q].cp.uid # uid
    /\ ~Rewrote(q)
    /\ getContactPointUncrypted(CurrentConfig, uid).cp.settings["password"]
         = "s1"

\* C13: a CreateContactPoint of a contact point that is not valid for its
\* type ends in that step with ValidationError; the stored document (and so
\* its hash) and the provenance records are unchanged, and the call neither
\* loaded the document nor built data to save.
C13_InvalidCreateTouchesNothing ==
  [][\A p \in Procs, call \in CreateInputs :
       (/\ CreateContactPoint(p, call[1], call[2])
        /\ ~IsValid(call[1]))
       => /\ pc'[p] = "done"
          /\ loc'[p].err = "ValidationError"
          /\ amConfig' = amConfig
          /\ amConfig'.ConfigurationHash = amConfig.ConfigurationHash
          /\ provenances' = provenances
          /\ commits' = commits
          /\ nextUID' = nextUID
          /\ loc'[p].cfg = NoLocals.cfg
          /\ loc'[p].hash = NoLocals.hash
          /\ loc'[p].data = NoLocals.data]_vars

C13_Witness ==
  \E p \in Procs :
    /\ pc[p] = "done" /\ loc[p].op = "create"
    /\ loc[p].err = "ValidationError"
    /\ ~IsValid(loc[p].cp)
    /\ loc[p].cfg = NoLocals.cfg
    /\ CurrentConfig \in InitialConfigs

\* C14: an UpdateContactPoint that commits keeps the number, order and names
\* of the groups and the length of every group; a member changes only where
\* the UID of the call was, and there it becomes the merged receiver, which
\* takes the first position of the UID in every group of its name; the
\* provenance records, the tag of the updated contact point included, are
\* unchanged.
C14_UpdateReplacesInPlace ==
  [][\A p \in Procs, failSave \in BOOLEAN :
       (/\ UpdateContactPointSave(p, failSave)
        /\ loc'[p].err = "nil")
       => LET old == CurrentConfig
              new == CurrentConfig'
              uid == loc[p].cp.uid
          IN  /\ Len(new) = Len(old)
              /\ \A g \in 1..Len(old) :
                   /\ new[g].name = old[g].name
                   /\ Len(new[g].members) = Len(old[g].members)
                   /\ \A i \in 1..Len(old[g].members) :
                        IF old[g].members[i].uid = uid
                        THEN new[g].members[i]
                               \in {old[g].members[i], loc[p].merged}
                        ELSE new[g].members[i] = old[g].members[i]
                   /\ old[g].name = loc[p].merged.name
                      => /\ FirstIndex(old[g].members, uid) # 0
                         /\ new[g].members[FirstIndex(old[g].members, uid)]
                              = loc[p].merged
              /\ loc[p].merged.uid = uid
              /\ provenances' = provenances]_vars

C14_Witness ==
  \E p \in Procs :
    /\ pc[p] = "done" /\ loc[p].op = "update" /\ loc[p].err = "nil"
    /\ ~Rewrote(p)
    /\ loc[p].cp.uid = 1
    /\ Len(CurrentConfig[1].members) = 2
    /\ CurrentConfig[1].members[1] = loc[p].merged
    /\ CurrentConfig[1].members[2] = StoredEmail(2, "ops")
    /\ provenances[1] = "file"

\* C15: after a DeleteContactPoint that commits no group holds a member
\* with the UID; the groups are the same in number, order and name, and
\* each group holds its members with other UIDs in their former order.
C15_DeleteRemovesEverywhere ==
  [][\A p \in Procs, failProv, failSave \in BOOLEAN :
       (/\ DeleteContactPointCommit(p, failProv, failSave)
        /\ loc'[p].err = "nil")
       => LET old == CurrentConfig
              new == CurrentConfig'
              uid == loc[p].cp.uid
              Other(m) == m.uid # uid
          IN  /\ uid \notin UIDsOf(new)
              /\ Len(new) = Len(old)
              /\ \A g \in 1..Len(old) :
                   /\ new[g].name = old[g].name
                   /\ new[g].members = SelectSeq(old[g].members, Other)]_vars

C15_Witness ==
  \E p \in Procs :
    /\ pc[p] = "done" /\ loc[p].op = "delete" /\ loc[p].err = "nil"
    /\ Len(loc[p].cfg) = 2
    /\ \A g \in 1..2 : FirstIndex(loc[p].cfg[g].members, loc[p].cp.uid) # 0
    /\ loc[p].cp.uid \notin UIDsOf(CurrentConfig)
    /\ Len(CurrentConfig) = 2
    /\ CurrentConfig[1].members = <<StoredWebhook(1, "ops")>>
    /\ CurrentConfig[2].members = <<>>

\* the groups of a document that carry the name and hold the UID
GroupsHolding(cfg, name, uid) ==
  {g \in 1..Len(cfg) :
     /\ cfg[g].name = name
     /\ FirstIndex(cfg[g].members, uid) # 0}

\* C16 as stated: when the UID is a member of several groups of the same
\* name, an UpdateContactPoint that commits leaves the members with the UID
\* in the groups after the first one unchanged.
C16_UpdateLeavesLaterGroups ==
  [][\A p \in Procs, failSave \in BOOLEAN :
       (/\ UpdateContactPointSave(p, failSave)
        /\ loc'[p].err = "nil")
       => LET old  == CurrentConfig
              new  == CurrentConfig'
              held == GroupsHolding(old, loc[p].merged.name, loc[p].cp.uid)
          IN  \A g, h \in held : g < h => new[h] = old[h]]_vars

\* C16: when the UID is a member of several groups of the same name, an
\* UpdateContactPoint of that name that commits puts the merged receiver at
\* the first position of the UID in every one of these groups, the later
\* groups included, and leaves every other position of them unchanged.
C16_UpdateRewritesEveryGroup ==
  [][\A p \in Procs, failSave \in BOOLEAN :
       (/\ UpdateContactPointSave(p, failSave)
        /\ loc'[p].err = "nil")
       => LET old  == CurrentConfig
              new  == CurrentConfig'
              uid  == loc[p].cp.uid
              held == GroupsHolding(old, loc[p].merged.name, uid)
          IN  Cardinality(held) > 1
              => \A g \in held :
                   /\ Len(new[g].members) = Len(old[g].members)
                   /\ \A i \in 1..Len(old[g].members) :
                        new[g].members[i]
                          = IF i = FirstIndex(old[g].members, uid)
                            THEN loc[p].merged
                            ELSE old[g].members[i]]_vars

C16_Witness ==
  \E p \in Procs :
    /\ pc[p] = "done" /\ loc[p].op = "update" /\ loc[p].err = "nil"
    /\ ~Rewrote(p)
    /\ GroupsHolding(loc[p].cfg, loc[p].merged.name, loc[p].cp.uid) = {1, 2}
    /\ \A g \in {1, 2} :
         /\ loc[p].merged # loc[p].cfg[g].members[Len(loc[p].cfg[g].members)]
         /\ CurrentConfig[g].members[Len(CurrentConfig[g].members)]
              = loc[p].merged

\* C17: a GetContactPoints over a document with a stored secret that cannot
\* be decoded or decrypted ends without error and lists every contact point
\* of the document; the affected key is left as the plain settings have it
\* (absent when they do not hold it), and every other stored secret that
\* decrypts to a non-empty value is shown as the sentinel.
C17_ListSkipsCorruptSecret ==
  \A p \in Procs :
    (pc[p] = "done" /\ loc[p].op = "list")
    => LET receivers == GetGrafanaReceiverMap(loc[p].cfg)
       IN  /\ loc[p].err = "nil"
           /\ {e.uid : e \in loc[p].list} = UIDsOf(loc[p].cfg)
           /\ \A e \in loc[p].list :
                LET r == receivers[e.uid]
                IN  \A k \in DOMAIN r.secure :
                      IF decrypteValue(r.secure[k]).err
                      THEN /\ k \in DOMAIN e.settings
                                <=> k \in DOMAIN r.settings
                           /\ k \in DOMAIN r.settings
                                => e.settings[k] = r.settings[k]
                      ELSE decrypteValue(r.secure[k]).val # ""
                           => /\ k \in DOMAIN e.settings
                              /\ e.settings[k] = RedactedValue

C17_Witness ==
  \E p \in Procs :
    /\ pc[p] = "done" /\ loc[p].op = "list" /\ loc[p].err = "nil"
    /\ \E e \in loc[p].list :
         /\ e.uid = 1
         /\ "token" \in DOMAIN GetGrafanaReceiverMap(loc[p].cfg)[1].secure
         /\ "token" \notin DOMAIN e.settings
         /\ e.settings["password"] = RedactedValue
    /\ \E e \in loc[p].list :
         /\ e.uid = 3
         /\ "password" \in DOMAIN e.settings
         /\ e.settings["password"] = RedactedValue

\* C18 as stated: an UpdateContactPoint that commits read the stored secrets
\* from the document version whose hash guards its save.
C18_UpdateFromOneSnapshot ==
  \A p \in Procs :
    (pc[p] = "done" /\ loc[p].op = "update" /\ loc[p].err = "nil")
    => loc[p].readHash = loc[p].hash

\* C19 as stated: no secret stored in the document decrypts to the
\* redaction sentinel.
C19_SentinelNeverStored ==
  \A pos \in Positions(CurrentConfig) :
    \A k \in DOMAIN MemberAt(CurrentConfig, pos).secure :
      LET plain == decrypteValue(MemberAt(CurrentConfig, pos).secure[k])
      IN  ~plain.err => plain.val # RedactedValue

\* the call of p has ended for good: it returned something other than
\* ConcurrentModification
Ended(p) == pc[p] = "done" /\ loc[p].err # "ConcurrentModification"

\* C20 as stated: with callers that run their call again after every
\* ConcurrentModification, every call that was issued eventually commits.
C20_EveryCallCommits ==
  \A p \in Procs :
    (pc[p] # "idle") ~> (pc[p] = "done" /\ loc[p].err = "nil")

\* C20: with callers that run their call again after every
\* ConcurrentModification, every call that was issued eventually ends,
\* committed or with an error other than ConcurrentModification; and a call
\* fails with ConcurrentModification only when another commit landed after
\* its load, so conflicting calls never all fail.
C20_EveryCallEnds ==
  /\ \A p \in Procs : (pc[p] # "idle") ~> Ended(p)
  /\ [](\A p \in Procs :
          (pc[p] \in {"done", "retry"}
           /\ loc[p].err = "ConcurrentModification")
          => loc[p].loadedAt < loc[p].attemptAt)

C20_Witness ==
  \E p, q \in Procs :
    /\ p # q
    /\ pc[p] = "done" /\ loc[p].err = "nil" /\ loc[p].op = "update"
    /\ loc[p].seq > Cardinality(Procs)
    /\ pc[q] = "done" /\ loc[q].err = "nil"
    /\ commits = 2

====
